---- MODULE Spec2Model ----
(***************************************************************************)
(* Model of streamlit_app.py: the fill-colour classifier, the text         *)
(* concatenator, the two extraction passes and the shell that runs them    *)
(* one after the other on the same uploaded byte source.                   *)
(*                                                                         *)
(* Python values are tagged tuples: None, PyInt(n), Lit("label"),          *)
(* Txt(chars)                                                              *)
(* and Raise (an exception leaving the function).  A Python str that comes *)
(* from the document is a sequence of one-character strings, so that       *)
(* strip() and join() are computed character by character.                 *)
(***************************************************************************)
EXTENDS Integers, Sequences, FiniteSets, TLC

VARIABLES
    doc,                \* the uploaded bytes: [valid, slides]
    pos,                \* read position of uploaded_file
    pc,                 \* position of the shell / of the running pass
    slide_idx,          \* enumerate(prs.slides) cursor (0-based)
    shape_pos,          \* cursor in slide.shapes (0-based)
    output,             \* the io.StringIO buffer of the running pass (records)
    shape_details_list, \* rows collected by the shape-summary pass
    text_tsv_content,   \* result of generate_text_details_tsv
    shape_tsv_content,  \* result of generate_combined_shape_details_tsv
    download_buttons,   \* the download buttons the shell has shown
    fn_shape,           \* argument of the helper functions (helper runs)
    fn_pc,              \* position of a helper run
    color_info,         \* result of get_shape_fill_color_info(fn_shape)
    all_text            \* result of get_all_text_from_shape(fn_shape)

vars == <<doc, pos, pc, slide_idx, shape_pos, output, shape_details_list,
          text_tsv_content, shape_tsv_content, download_buttons, fn_shape, fn_pc, color_info,
          all_text>>

shellVars == <<doc, pos, pc, slide_idx, shape_pos, output, shape_details_list,
               text_tsv_content, shape_tsv_content, download_buttons>>

fnVars == <<fn_shape, fn_pc, color_info, all_text>>

----------------------------------------------------------------------------
(* Bounds of the model *)

\* a document is at most this many items (shapes and slide breaks)
MaxItems == 3
\* the byte source has positions 0..SrcLen
SrcLen == 2
\* paragraphs per text frame, runs per paragraph (helper runs)
MaxParas == 2
MaxRuns == 2
\* rows and columns of a table (helper runs)
MaxRows == 2
MaxCols == 2

----------------------------------------------------------------------------
(* Python values *)

None == <<"None">>
PyInt(n) == <<"int", n>>
Lit(s) == <<"str", s>>
Txt(chars) == <<"txt", chars>>
Raise == <<"raise">>

IsRaise(v) == v[1] = "raise"

\* what csv writes into a cell: None becomes the empty string, a bool its
\* str(), anything else str(value)
CsvCell(v) == IF v = None THEN Lit("")
              ELSE IF v = <<"bool", FALSE>> THEN Lit("False")
              ELSE IF v = <<"bool", TRUE>> THEN Lit("True")
              ELSE v

PyFalse == <<"bool", FALSE>>
PyTrue == <<"bool", TRUE>>

----------------------------------------------------------------------------
(* str.strip() and str.join() *)

NL == "\n"
Whitespace == {" ", NL}

RECURSIVE LStrip(_)
LStrip(s) == IF s # <<>> /\ Head(s) \in Whitespace THEN LStrip(Tail(s)) ELSE s

RECURSIVE RStrip(_)
RStrip(s) == IF s # <<>> /\ s[Len(s)] \in Whitespace
             THEN RStrip(SubSeq(s, 1, Len(s) - 1)) ELSE s

Strip(s) == RStrip(LStrip(s))

RECURSIVE JoinTrailing(_, _)
JoinTrailing(sep, parts) ==
    IF parts = <<>> THEN <<>>
    ELSE Head(parts) \o sep \o JoinTrailing(sep, Tail(parts))

RECURSIVE Join(_, _)
Join(sep, parts) ==
    IF parts = <<>> THEN <<>>
    ELSE IF Len(parts) = 1 THEN parts[1]
    ELSE Head(parts) \o sep \o Join(sep, Tail(parts))

RECURSIVE Concat(_)
Concat(strs) == IF strs = <<>> THEN <<>> ELSE Head(strs) \o Concat(Tail(strs))

Delimiter == <<" ", "|", " ">>

----------------------------------------------------------------------------
(* The enumerations imported from pptx *)

MSO_AUTO_SHAPE == 1
MSO_CHART == 3
MSO_GROUP == 6
MSO_EMBEDDED_OLE_OBJECT == 7
MSO_LINE == 9
MSO_PICTURE == 13
MSO_TEXT_BOX == 17
MSO_TABLE == 19

\* hasattr(MSO_SHAPE_TYPE, 'TABLE'), 'CHART', 'LINE', 'GRAPHIC_FRAME'
HasTABLE == TRUE
HasCHART == TRUE
HasLINE == TRUE
HasGRAPHIC_FRAME == FALSE

\* the keys of fill_type_map and the labels it gives
fill_type_map ==
    [t \in {"SOLID", "GRADIENT", "PICTURE", "GROUP", "BACKGROUND",
            "PATTERNED", "TEXTURED"} |->
        CASE t = "SOLID" -> "Solid Fill"
          [] t = "GRADIENT" -> "Gradient Fill"
          [] t = "PICTURE" -> "Picture Fill"
          [] t = "GROUP" -> "Group Fill"
          [] t = "BACKGROUND" -> "Background Fill"
          [] t = "PATTERNED" -> "Patterned Fill"
          [] t = "TEXTURED" -> "Textured Fill"]

----------------------------------------------------------------------------
(* get_shape_fill_color_info *)

\* the brightness cut after two decimals instead of rounded
Format2fTruncated(th) == th \div 10

\* f"{brightness:.2f}": thousandths rounded to hundredths (ties to even)
Format2f(th) ==
    LET q == th \div 10
        r == th % 10
    IN  IF r > 5 THEN q + 1
        ELSE IF r < 5 THEN q
        ELSE IF q % 2 = 0 THEN q ELSE q + 1

\* lines 41-47: the colour of a solid fill; Raise is an exception inside try
SolidColorInfo(color) ==
    IF color.rgbRead = "raises" THEN Raise
    ELSE IF color.rgbRead = "ok"
    THEN <<"RGB", color.rgb[1], color.rgb[2], color.rgb[3]>>
    ELSE IF color.themeRead = "raises" THEN Raise
    ELSE IF color.themeRead = "ok"
    THEN IF color.brightRead = "raises" THEN Raise
         ELSE <<"ThemeColor", color.theme_color, Format2f(color.brightness)>>
    ELSE Lit(fill_type_map["SOLID"])

\* lines 30-50: the try block and its except
FillInfo(fill) ==
    LET inside ==
            IF fill.typeRead = "raises" THEN Raise
            ELSE IF fill.type \in DOMAIN fill_type_map
            THEN IF fill.type = "SOLID"
                 THEN IF fill.colorRead = "raises" THEN Raise
                      ELSE SolidColorInfo(fill.fore_color)
                 ELSE Lit(fill_type_map[fill.type])
            ELSE Lit("No Fill")
    IN  IF IsRaise(inside) THEN Lit("Fill Info Error (General)") ELSE inside

\* lines 23-25: MSO_SHAPE_TYPE has no GRAPHIC_FRAME member, so the first
\* disjunct is cut short by hasattr and the raw code 6 decides
is_other_graphic_frame(shape) ==
    \/ HasGRAPHIC_FRAME /\ shape.shape_type = 6
    \/ shape.shape_type = 6

\* lines 19-28: the sentinel of a shape without a fill attribute
NoFillInfo(shape) ==
    IF shape.kindRead = "raises" THEN Raise
    ELSE IF HasTABLE /\ shape.shape_type = MSO_TABLE
    THEN Lit("Table Container (Fill N/A)")
    ELSE IF HasCHART /\ shape.shape_type = MSO_CHART
    THEN Lit("Chart Container (Fill N/A)")
    ELSE IF is_other_graphic_frame(shape)
    THEN Lit("Graphic Frame (Fill N/A)")
    ELSE Lit("Fill Attribute Missing / Other Type")

\* hasattr(shape, 'fill') lets every exception but AttributeError through
get_shape_fill_color_info(shape) ==
    IF shape.fillRead = "raises" THEN Raise
    ELSE IF shape.fillRead = "absent" THEN NoFillInfo(shape)
    ELSE FillInfo(shape.fill)

----------------------------------------------------------------------------
(* get_all_text_from_shape *)

\* paragraph.text: the runs' text, joined
ParagraphText(p) == Concat(p.runs)

\* cell.text: the paragraphs' text, joined with a newline
CellText(cell) == Join(<<NL>>, [i \in 1..Len(cell) |-> ParagraphText(cell[i])])

\* is_table, lines 62-63 and 101-102
IsTable(shape) ==
    \/ HasTABLE /\ shape.shape_type = MSO_TABLE
    \/ ~HasTABLE /\ shape.shape_type = 19

\* the connector test with the raw code of the fallback branch alone
IsLineRawCode(shape) == shape.shape_type = 13

\* the connector test, lines 90-91 and 137-138
IsLine(shape) ==
    \/ HasLINE /\ shape.shape_type = MSO_LINE
    \/ ~HasLINE /\ shape.shape_type = 13

\* text_parts.append(x.strip()) for every x with a non-empty x.strip()
RECURSIVE AppendStripped(_, _)
AppendStripped(text_parts, texts) ==
    IF texts = <<>> THEN text_parts
    ELSE AppendStripped(
            IF Strip(Head(texts)) # <<>>
            THEN Append(text_parts, Strip(Head(texts))) ELSE text_parts,
            Tail(texts))

RowCellTexts(row) == [c \in 1..Len(row) |-> CellText(row[c])]

RECURSIVE TableCellTexts(_)
TableCellTexts(rows) ==
    IF rows = <<>> THEN <<>>
    ELSE RowCellTexts(Head(rows)) \o TableCellTexts(Tail(rows))

\* lines 57-68: the parts collected from the text frame, then from the table
TextParts(shape) ==
    LET fromFrame ==
            IF shape.has_text_frame
            THEN AppendStripped(<<>>,
                    [i \in 1..Len(shape.text_frame) |->
                        ParagraphText(shape.text_frame[i])])
            ELSE <<>>
    IN  IF IsTable(shape)
        THEN AppendStripped(fromFrame, TableCellTexts(shape.table))
        ELSE fromFrame

get_all_text_from_shape(shape) ==
    IF shape.kindRead = "raises" THEN Raise
    ELSE Txt(Join(Delimiter, TextParts(shape)))

----------------------------------------------------------------------------
(* The rows generate_text_details_tsv writes for one shape *)

\* a writerow() of the csv writer
Record(cells) == [i \in 1..Len(cells) |-> CsvCell(cells[i])]

\* lines 97-100 with a row for every run, blank or not
RECURSIVE RunRowsUnfiltered(_, _, _, _)
RunRowsUnfiltered(cols, para_idx, runs, run_idx) ==
    IF run_idx >= Len(runs) THEN <<>>
    ELSE <<Record(cols \o <<PyInt(para_idx), PyInt(run_idx),
                            Txt(Strip(runs[run_idx + 1]))>>)>>
         \o RunRowsUnfiltered(cols, para_idx, runs, run_idx + 1)

\* lines 97-100 and 106-109: the runs of one paragraph, from run_idx on
RECURSIVE RunRows(_, _, _, _)
RunRows(cols, para_idx, runs, run_idx) ==
    IF run_idx >= Len(runs) THEN <<>>
    ELSE (IF Strip(runs[run_idx + 1]) # <<>>
          THEN <<Record(cols \o <<PyInt(para_idx), PyInt(run_idx),
                                  Txt(Strip(runs[run_idx + 1]))>>)>>
          ELSE <<>>)
         \o RunRows(cols, para_idx, runs, run_idx + 1)

\* two parts of a walk one after the other: the second runs only when the
\* first did not raise
Then(a, b) == IF a.raised THEN a
              ELSE [rows |-> a.rows \o b.rows, raised |-> b.raised]

Walked(rows) == [rows |-> rows, raised |-> FALSE]
Raised == [rows |-> <<>>, raised |-> TRUE]

\* lines 96 and 105: the paragraphs of one text frame, from para_idx on
RECURSIVE ParagraphRows(_, _, _)
ParagraphRows(cols, paragraphs, para_idx) ==
    IF para_idx >= Len(paragraphs) THEN Walked(<<>>)
    ELSE IF paragraphs[para_idx + 1].runsRead = "raises" THEN Raised
    ELSE Then(Walked(RunRows(cols, para_idx, paragraphs[para_idx + 1].runs, 0)),
              ParagraphRows(cols, paragraphs, para_idx + 1))

\* line 104: the cells of one table row, from c_idx on
RECURSIVE CellRows(_, _, _, _, _)
CellRows(slide, shape_id, r_idx, cells, c_idx) ==
    IF c_idx >= Len(cells) THEN Walked(<<>>)
    ELSE Then(ParagraphRows(<<PyInt(slide), PyInt(shape_id), PyTrue,
                              PyInt(r_idx), PyInt(c_idx)>>,
                            cells[c_idx + 1], 0),
              CellRows(slide, shape_id, r_idx, cells, c_idx + 1))

\* line 103: the rows of one table, from r_idx on
RECURSIVE TableRows(_, _, _, _)
TableRows(slide, shape_id, rows, r_idx) ==
    IF r_idx >= Len(rows) THEN Walked(<<>>)
    ELSE Then(CellRows(slide, shape_id, r_idx, rows[r_idx + 1], 0),
              TableRows(slide, shape_id, rows, r_idx + 1))

\* lines 90-109: the body of the shape loop of generate_text_details_tsv
TextShapeRows(slide, shape) ==
    IF shape.kindRead = "raises" THEN Raised
    ELSE IF IsLine(shape) THEN Walked(<<>>)
    ELSE Then(IF shape.has_text_frame
              THEN ParagraphRows(<<PyInt(slide), PyInt(shape.shape_id), PyFalse,
                                   None, None>>, shape.text_frame, 0)
              ELSE Walked(<<>>),
              IF IsTable(shape)
              THEN TableRows(slide, shape.shape_id, shape.table, 0)
              ELSE Walked(<<>>))

text_headers ==
    <<Lit("slide_index"), Lit("shape_id"), Lit("is_table_cell"),
      Lit("cell_row_index"), Lit("cell_col_index"), Lit("paragraph_index"),
      Lit("run_index"), Lit("text")>>

----------------------------------------------------------------------------
(* The row generate_combined_shape_details_tsv collects for one shape *)

csv_headers ==
    <<Lit("slide_index"), Lit("shape_id"), Lit("shape_name"), Lit("shape_type"),
      Lit("color"), Lit("x_coordinate_emu"), Lit("y_coordinate_emu"),
      Lit("width_emu"), Lit("height_emu"), Lit("text")>>

\* the members of MSO_SHAPE_TYPE the model uses
KnownKinds == {MSO_AUTO_SHAPE, MSO_CHART, MSO_GROUP, MSO_EMBEDDED_OLE_OBJECT,
               MSO_LINE, MSO_PICTURE, MSO_TEXT_BOX, MSO_TABLE}

\* lines 141-142: the member's name, or "Unknown (<raw code>)"
shape_type_str(kind) ==
    IF kind \in KnownKinds THEN <<"member", kind>> ELSE <<"Unknown", kind>>

\* line 146: shape.name or "Unnamed Shape"
ShapeName(shape) ==
    IF shape.name = None \/ shape.name = Lit("") THEN Lit("Unnamed Shape")
    ELSE shape.name

\* lines 148-151: shape.<attr> if hasattr(shape, '<attr>') else 'N/A'
Geometry(shape, attr) ==
    IF attr \in shape.attrs THEN shape[attr] ELSE Lit("N/A")

\* lines 141-153 with slides counted from 1
ShapeDetailsOneBased(slide, shape) ==
    IF shape.kindRead = "raises" THEN Raise
    ELSE LET color == get_shape_fill_color_info(shape)
             text == get_all_text_from_shape(shape)
         IN  IF IsRaise(color) \/ IsRaise(text) THEN Raise
             ELSE Record(<<PyInt(slide + 1), PyInt(shape.shape_id),
                           ShapeName(shape), shape_type_str(shape.shape_type),
                           color, Geometry(shape, "left"), Geometry(shape, "top"),
                           Geometry(shape, "width"), Geometry(shape, "height"),
                           text>>)

\* lines 141-153: the dict appended for one shape, as the record writerows
\* makes of it; Raise when one of the reads or helpers raises
ShapeDetails(slide, shape) ==
    IF shape.kindRead = "raises" THEN Raise
    ELSE LET color == get_shape_fill_color_info(shape)
             text == get_all_text_from_shape(shape)
         IN  IF IsRaise(color) \/ IsRaise(text) THEN Raise
             ELSE Record(<<PyInt(slide), PyInt(shape.shape_id), ShapeName(shape),
                           shape_type_str(shape.shape_type), color,
                           Geometry(shape, "left"), Geometry(shape, "top"),
                           Geometry(shape, "width"), Geometry(shape, "height"),
                           text>>)

----------------------------------------------------------------------------
(* Shapes *)

AllAttrs == {"left", "top", "width", "height"}

Para(runs) == [runsRead |-> "ok", runs |-> runs]

DefaultColor ==
    [rgbRead |-> "ok", rgb |-> <<255, 0, 128>>, themeRead |-> "absent",
     theme_color |-> 3, brightRead |-> "ok", brightness |-> 0]

DefaultFill ==
    [typeRead |-> "ok", type |-> "SOLID", colorRead |-> "ok",
     fore_color |-> DefaultColor]

\* an auto shape at the origin, solid RGB fill, no text
BaseShape ==
    [shape_id |-> 2, name |-> Lit("Shape"), kindRead |-> "ok",
     shape_type |-> MSO_AUTO_SHAPE, fillRead |-> "ok", fill |-> DefaultFill,
     attrs |-> AllAttrs, left |-> PyInt(0), top |-> PyInt(0),
     width |-> PyInt(5), height |-> PyInt(7),
     has_text_frame |-> FALSE, text_frame |-> <<>>, table |-> <<>>]

\* a text box: a blank run before "A", then a paragraph "B"
TextBoxShape ==
    [BaseShape EXCEPT !.shape_type = MSO_TEXT_BOX, !.has_text_frame = TRUE,
        !.text_frame = <<Para(<< <<" ">>, <<" ", "A">> >>), Para(<< <<"B">> >>)>>]

\* a connector that exposes a text frame and a fill
ConnectorShape ==
    [BaseShape EXCEPT !.shape_type = MSO_LINE, !.has_text_frame = TRUE,
        !.text_frame = <<Para(<< <<"C">> >>)>>]

EmptyCell == <<Para(<<>>)>>
CellA == <<Para(<< <<"A">> >>)>>
CellB == <<Para(<< <<"B">> >>)>>

\* the 2x2 table with "A" in cell (0,0) and "B" in cell (1,1)
TableShape ==
    [BaseShape EXCEPT !.shape_type = MSO_TABLE, !.fillRead = "absent",
        !.table = <<<<CellA, EmptyCell>>, <<EmptyCell, CellB>>>>]

\* a picture: no fill attribute, an empty name
PictureShape ==
    [BaseShape EXCEPT !.shape_type = MSO_PICTURE, !.fillRead = "absent",
        !.name = Lit("")]

\* a group shape: no fill attribute
GroupShape ==
    [BaseShape EXCEPT !.shape_type = MSO_GROUP, !.fillRead = "absent"]

\* an auto shape without a transform: left, top, width and height are None
UnplacedShape ==
    [BaseShape EXCEPT !.left = None, !.top = None, !.width = None,
        !.height = None]

\* reading its shape_type raises
BrokenKindShape == [BaseShape EXCEPT !.kindRead = "raises"]

\* a text box whose second paragraph raises when its runs are read
BrokenRunsShape ==
    [BaseShape EXCEPT !.shape_type = MSO_TEXT_BOX, !.has_text_frame = TRUE,
        !.text_frame = <<Para(<< <<"D">> >>),
                         [runsRead |-> "raises", runs |-> << <<"E">> >>]>>]

\* reading its fill raises something other than AttributeError
BrokenFillShape == [BaseShape EXCEPT !.fillRead = "raises"]

ShapePool ==
    <<TextBoxShape, ConnectorShape, TableShape, PictureShape, GroupShape,
      UnplacedShape, BrokenKindShape, BrokenRunsShape, BrokenFillShape>>

----------------------------------------------------------------------------
(* Documents: the bytes of uploaded_file and what Presentation makes of them *)

\* an item is a shape of the pool (its index) or the end of a slide (0)
Items == 0..Len(ShapePool)

Documents ==
    {[valid |-> FALSE, items |-> <<>>]}
    \cup {[valid |-> TRUE, items |-> it] :
            it \in UNION {[1..n -> Items] : n \in 0..MaxItems}}

\* the slides of a parsed document; shape ids count from 2 within a slide
RECURSIVE SlidesFrom(_, _, _)
SlidesFrom(items, i, slide) ==
    IF i > Len(items) THEN (IF slide = <<>> THEN <<>> ELSE <<slide>>)
    ELSE IF items[i] = 0 THEN <<slide>> \o SlidesFrom(items, i + 1, <<>>)
    ELSE SlidesFrom(items, i + 1,
            Append(slide, [ShapePool[items[i]] EXCEPT !.shape_id = Len(slide) + 2]))

Slides(d) == SlidesFrom(d.items, 1, <<>>)

\* Presentation(uploaded_file) read from position p: TRUE when it parses.
\* From offset 0 the bytes decide; from elsewhere the read may also fail.
Presentation(d, p) == IF p = 0 THEN {d.valid} ELSE {d.valid, FALSE}

\* the next (slide, shape) position of the nested loops at or after slide s
RECURSIVE FirstShapeFrom(_, _)
FirstShapeFrom(slides, s) ==
    IF s >= Len(slides) THEN <<Len(slides), 0>>
    ELSE IF Len(slides[s + 1]) > 0 THEN <<s, 0>>
    ELSE FirstShapeFrom(slides, s + 1)

NextShape(slides, s, j) ==
    IF j + 1 < Len(slides[s + 1]) THEN <<s, j + 1>>
    ELSE FirstShapeFrom(slides, s + 1)

----------------------------------------------------------------------------
(* The shell: generate_text_details_tsv, then                              *)
(* generate_combined_shape_details_tsv, on the same uploaded_file          *)

Unset == <<"unset">>
Tsv(records) == <<"tsv", records>>
IsNone(v) == v[1] = "None"
IsTsv(v) == v[1] = "tsv"

\* lines 110-113 with the buffer returned
TextFailurePartial(buffer) == Tsv(buffer)

\* lines 110-113: the except branch of generate_text_details_tsv
TextFailure(buffer) == None

\* lines 157-160: the except branch of generate_combined_shape_details_tsv
ShapeFailure(buffer) == None

\* line 132 left out
SeekKeep(p) == p

\* line 132: uploaded_file.seek(0)
Seek0(p) == 0

Idle == [fn_shape |-> BaseShape, fn_pc |-> "idle", color_info |-> Unset,
         all_text |-> Unset]

Init ==
    /\ doc \in Documents
    /\ pos = 0
    /\ pc = "text_parse"
    /\ slide_idx = 0
    /\ shape_pos = 0
    /\ output = <<>>
    /\ shape_details_list = <<>>
    /\ text_tsv_content = Unset
    /\ shape_tsv_content = Unset
    /\ download_buttons = {}
    /\ fn_shape = Idle.fn_shape
    /\ fn_pc = Idle.fn_pc
    /\ color_info = Idle.color_info
    /\ all_text = Idle.all_text

\* lines 79-86: the buffer, the parse and the header
TextParse ==
    /\ pc = "text_parse"
    /\ \E ok \in Presentation(doc, pos), p \in 0..SrcLen :
        /\ pos' = p
        /\ IF ok
           THEN /\ output' = <<Record(text_headers)>>
                /\ slide_idx' = FirstShapeFrom(Slides(doc), 0)[1]
                /\ shape_pos' = FirstShapeFrom(Slides(doc), 0)[2]
                /\ pc' = "text_walk"
                /\ UNCHANGED text_tsv_content
           ELSE /\ text_tsv_content' = TextFailure(<<>>)
                /\ pc' = "shape_parse"
                /\ UNCHANGED <<output, slide_idx, shape_pos>>
    /\ UNCHANGED <<doc, shape_details_list, shape_tsv_content, download_buttons>>
    /\ UNCHANGED fnVars

\* lines 88-109: one turn of the shape loop
TextShape ==
    /\ pc = "text_walk"
    /\ slide_idx < Len(Slides(doc))
    /\ LET slides == Slides(doc)
           w == TextShapeRows(slide_idx, slides[slide_idx + 1][shape_pos + 1])
           next == NextShape(slides, slide_idx, shape_pos)
       IN  /\ output' = output \o w.rows
           /\ IF w.raised
              THEN /\ text_tsv_content' = TextFailure(output')
                   /\ pc' = "shape_parse"
                   /\ UNCHANGED <<slide_idx, shape_pos>>
              ELSE /\ slide_idx' = next[1]
                   /\ shape_pos' = next[2]
                   /\ UNCHANGED <<pc, text_tsv_content>>
    /\ UNCHANGED <<doc, pos, shape_details_list, shape_tsv_content,
                   download_buttons>>
    /\ UNCHANGED fnVars

\* line 115: return output.getvalue()
TextReturn ==
    /\ pc = "text_walk"
    /\ slide_idx >= Len(Slides(doc))
    /\ text_tsv_content' = Tsv(output)
    /\ pc' = "shape_parse"
    /\ UNCHANGED <<doc, pos, slide_idx, shape_pos, output, shape_details_list,
                   shape_tsv_content, download_buttons>>
    /\ UNCHANGED fnVars

\* lines 123-133: the buffer, the header, the rewind and the parse
ShapeParse ==
    /\ pc = "shape_parse"
    /\ output' = <<Record(csv_headers)>>
    /\ shape_details_list' = <<>>
    /\ \E ok \in Presentation(doc, Seek0(pos)), p \in 0..SrcLen :
        /\ pos' = p
        /\ IF ok
           THEN /\ slide_idx' = FirstShapeFrom(Slides(doc), 0)[1]
                /\ shape_pos' = FirstShapeFrom(Slides(doc), 0)[2]
                /\ pc' = "shape_walk"
                /\ UNCHANGED shape_tsv_content
           ELSE /\ shape_tsv_content' = ShapeFailure(output')
                /\ pc' = "display"
                /\ UNCHANGED <<slide_idx, shape_pos>>
    /\ UNCHANGED <<doc, text_tsv_content, download_buttons>>
    /\ UNCHANGED fnVars

\* lines 135-153: one turn of the shape loop
ShapeStep ==
    /\ pc = "shape_walk"
    /\ slide_idx < Len(Slides(doc))
    /\ LET slides == Slides(doc)
           shape == slides[slide_idx + 1][shape_pos + 1]
           skip == shape.kindRead = "ok" /\ IsLine(shape)
           row == IF skip THEN Unset ELSE ShapeDetails(slide_idx, shape)
           next == NextShape(slides, slide_idx, shape_pos)
       IN  IF IsRaise(row)
           THEN /\ shape_tsv_content' = ShapeFailure(output)
                /\ pc' = "display"
                /\ UNCHANGED <<slide_idx, shape_pos, shape_details_list>>
           ELSE /\ shape_details_list' =
                     IF skip THEN shape_details_list
                     ELSE Append(shape_details_list, row)
                /\ slide_idx' = next[1]
                /\ shape_pos' = next[2]
                /\ UNCHANGED <<pc, shape_tsv_content>>
    /\ UNCHANGED <<doc, pos, output, text_tsv_content, download_buttons>>
    /\ UNCHANGED fnVars

\* lines 155 and 162: writerows, then return output.getvalue()
ShapeReturn ==
    /\ pc = "shape_walk"
    /\ slide_idx >= Len(Slides(doc))
    /\ output' = output \o shape_details_list
    /\ shape_tsv_content' = Tsv(output')
    /\ pc' = "display"
    /\ UNCHANGED <<doc, pos, slide_idx, shape_pos, shape_details_list,
                   text_tsv_content, download_buttons>>
    /\ UNCHANGED fnVars

\* "if text_tsv_content:": None and the empty string are false
Truthy(content) == IsTsv(content) /\ content[2] # <<>>

\* lines 182-201: a download button for each result that is true
Display ==
    /\ pc = "display"
    /\ download_buttons' =
          {b \in {"TextDetails", "ShapeSummary"} :
              \/ b = "TextDetails" /\ Truthy(text_tsv_content)
              \/ b = "ShapeSummary" /\ Truthy(shape_tsv_content)}
    /\ pc' = "done"
    /\ UNCHANGED <<doc, pos, slide_idx, shape_pos, output, shape_details_list,
                   text_tsv_content, shape_tsv_content>>
    /\ UNCHANGED fnVars

Next ==
    \/ TextParse
    \/ TextShape
    \/ TextReturn
    \/ ShapeParse
    \/ ShapeStep
    \/ ShapeReturn
    \/ Display

Spec == Init /\ [][Next]_vars

----------------------------------------------------------------------------
(* Helper runs: the two helper functions applied to one shape *)

SeqsUpTo(S, n) == UNION {[1..k -> S] : k \in 0..n}

Kinds == KnownKinds \cup {99}

Reads == {"absent", "none", "raises", "ok"}

\* fore_color of a solid fill: an RGB colour, a theme colour with its
\* brightness (in thousandths), neither, or a read that raises
Colors ==
    [rgbRead : Reads, rgb : {<<255, 0, 128>>, <<0, 0, 0>>},
     themeRead : Reads, theme_color : {3, 5},
     brightRead : {"ok", "raises"}, brightness : {456, -254, 0}]

FillTypes == DOMAIN fill_type_map \cup {"None", "OTHER"}

Fills ==
    {[DefaultFill EXCEPT !.typeRead = "raises"],
     [DefaultFill EXCEPT !.colorRead = "raises"]}
    \cup {[DefaultFill EXCEPT !.type = t] : t \in FillTypes \ {"SOLID"}}
    \cup {[DefaultFill EXCEPT !.fore_color = c] : c \in Colors}

FillShapes ==
    {[BaseShape EXCEPT !.fillRead = f, !.kindRead = k, !.shape_type = t] :
        f \in {"absent", "raises"}, k \in {"ok", "raises"}, t \in Kinds}
    \cup {[BaseShape EXCEPT !.fill = f] : f \in Fills}

RunTexts == {<<" ">>, <<"A">>, <<" ", "B">>}

Paragraphs == {Para(r) : r \in SeqsUpTo(RunTexts, MaxRuns)}

TextFrames == SeqsUpTo(Paragraphs, MaxParas)

\* a cell is the paragraphs of its text frame
Cells == {EmptyCell, CellA, <<Para(<< <<" ", "B">> >>), Para(<< <<"C">> >>)>>}

Tables == UNION {[1..r -> [1..c -> Cells]] : r \in 1..MaxRows, c \in 1..MaxCols}

\* text boxes with every text frame
FrameShapes ==
    {[BaseShape EXCEPT !.shape_type = MSO_TEXT_BOX, !.has_text_frame = TRUE,
                       !.text_frame = tf] : tf \in TextFrames}

\* tables with every filling of their cells
TableShapes ==
    {[BaseShape EXCEPT !.shape_type = MSO_TABLE, !.fillRead = "absent",
                       !.table = t] : t \in Tables}

\* the 2x2 table of the shell runs, and tables that expose a text frame too
MixedShapes ==
    {TableShape}
    \cup {[BaseShape EXCEPT !.shape_type = MSO_TABLE, !.fillRead = "absent",
                            !.has_text_frame = TRUE, !.text_frame = <<p>>,
                            !.table = <<<<c>>>>] : p \in Paragraphs, c \in Cells}

FnInit ==
    /\ \/ fn_shape \in FillShapes
       \/ fn_shape \in FrameShapes
       \/ fn_shape \in TableShapes
       \/ fn_shape \in MixedShapes
    /\ fn_pc = "start"
    /\ color_info = Unset
    /\ all_text = Unset
    /\ doc = [valid |-> FALSE, items |-> <<>>]
    /\ pos = 0
    /\ pc = "idle"
    /\ slide_idx = 0
    /\ shape_pos = 0
    /\ output = <<>>
    /\ shape_details_list = <<>>
    /\ text_tsv_content = Unset
    /\ shape_tsv_content = Unset
    /\ download_buttons = {}

\* color_info = get_shape_fill_color_info(shape)
Classify ==
    /\ fn_pc = "start"
    /\ color_info' = get_shape_fill_color_info(fn_shape)
    /\ fn_pc' = "classified"
    /\ UNCHANGED <<fn_shape, all_text>>
    /\ UNCHANGED shellVars

\* text = get_all_text_from_shape(shape), run again on the same shape
Concatenate ==
    /\ fn_pc \in {"classified", "concatenated"}
    /\ all_text' = get_all_text_from_shape(fn_shape)
    /\ fn_pc' = IF fn_pc = "classified" THEN "concatenated" ELSE "rerun"
    /\ UNCHANGED <<fn_shape, color_info>>
    /\ UNCHANGED shellVars

FnNext ==
    \/ Classify
    \/ Concatenate

FnSpec == FnInit /\ [][FnNext]_vars

----------------------------------------------------------------------------
(* Reference definitions of the properties *)

\* the text between the first and the last non-blank character
Trimmed(str) ==
    LET solid == {i \in 1..Len(str) : str[i] \notin Whitespace}
    IN  IF solid = {} THEN <<>>
        ELSE SubSeq(str, CHOOSE i \in solid : \A k \in solid : i <= k,
                         CHOOSE i \in solid : \A k \in solid : i >= k)

Positions(slides) ==
    UNION {{<<s, j>> : j \in 1..Len(slides[s])} : s \in 1..Len(slides)}

AllShapes(slides) == {slides[q[1]][q[2]] : q \in Positions(slides)}

IsConnector(shape) == shape.shape_type = MSO_LINE

FrameRaises(paragraphs) ==
    \E p \in 1..Len(paragraphs) : paragraphs[p].runsRead = "raises"

\* a shape on which the text-run walk raises
TextWalkFails(shape) ==
    \/ shape.kindRead = "raises"
    \/ /\ ~IsConnector(shape)
       /\ \/ shape.has_text_frame /\ FrameRaises(shape.text_frame)
          \/ /\ shape.shape_type = MSO_TABLE
             /\ \E r \in 1..Len(shape.table) : \E c \in 1..Len(shape.table[r]) :
                    FrameRaises(shape.table[r][c])

\* a shape on which the shape-summary walk raises
ShapeWalkFails(shape) ==
    \/ shape.kindRead = "raises"
    \/ ~IsConnector(shape) /\ shape.fillRead = "raises"

TextPassFails(d) ==
    ~d.valid \/ \E sh \in AllShapes(Slides(d)) : TextWalkFails(sh)

ShapePassFails(d) ==
    ~d.valid \/ \E sh \in AllShapes(Slides(d)) : ShapeWalkFails(sh)

TextPassOver == pc \in {"shape_parse", "shape_walk", "display", "done"}

ShapePassOver == pc \in {"display", "done"}

DataRows(content) == IF IsTsv(content) THEN Tail(content[2]) ELSE <<>>

RECURSIVE LexLess(_, _)
LexLess(a, b) ==
    /\ a # <<>>
    /\ \/ Head(a) < Head(b)
       \/ Head(a) = Head(b) /\ LexLess(Tail(a), Tail(b))

Ascending(keys) == \A k \in 1..(Len(keys) - 1) : LexLess(keys[k], keys[k + 1])

Range(seq) == {seq[k] : k \in 1..Len(seq)}

----------------------------------------------------------------------------
\* C1: each pass is all-or-nothing.  When the parse or any step of its walk
\* fails the pass returns None, whatever the buffer already holds; when
\* nothing fails it returns the buffer, whose first record is the header,
\* so the shell takes exactly the failed passes for failed.
C1_AllOrNothing ==
    /\ TextPassOver =>
          IF TextPassFails(doc) THEN IsNone(text_tsv_content)
          ELSE /\ IsTsv(text_tsv_content)
               /\ text_tsv_content[2] # <<>>
               /\ text_tsv_content[2][1] = text_headers
    /\ ShapePassOver =>
          IF ShapePassFails(doc) THEN IsNone(shape_tsv_content)
          ELSE /\ IsTsv(shape_tsv_content)
               /\ shape_tsv_content[2] # <<>>
               /\ shape_tsv_content[2][1] = csv_headers
    /\ pc = "done" =>
          /\ "TextDetails" \in download_buttons <=> ~TextPassFails(doc)
          /\ "ShapeSummary" \in download_buttons <=> ~ShapePassFails(doc)

\* the text-run pass has failed after rows of earlier runs were written
C1_Witness ==
    /\ pc = "shape_parse"
    /\ IsNone(text_tsv_content)
    /\ Len(output) > 1

----------------------------------------------------------------------------
\* the result of the shape-summary pass as a function of the bytes alone
RECURSIVE SummaryOfSlides(_, _)
SummaryOfSlides(slides, n) ==
    IF n = 0 THEN <<>>
    ELSE SummaryOfSlides(slides, n - 1)
         \o SelectSeq([j \in 1..Len(slides[n]) |->
                          IF IsConnector(slides[n][j]) THEN Unset
                          ELSE ShapeDetails(n - 1, slides[n][j])],
                      LAMBDA row : row # Unset)

SummaryOfBytes(d) ==
    IF ShapePassFails(d) THEN None
    ELSE Tsv(<<csv_headers>> \o SummaryOfSlides(Slides(d), Len(Slides(d))))

SameResult(a, b) == a[1] = b[1] /\ (IsTsv(a) => a[2] = b[2])

\* C2: run after the text-run pass, the shape-summary pass returns what the
\* bytes alone decide, whether the text-run pass succeeded or failed and
\* wherever it left the read position; and the text-run pass succeeds on
\* bytes it can walk whatever the shape-summary pass does.
C2_PassesIsolated ==
    ShapePassOver =>
        /\ SameResult(shape_tsv_content, SummaryOfBytes(doc))
        /\ ~TextPassFails(doc) => IsTsv(text_tsv_content)

\* the text-run pass failed and the shape-summary pass still returned rows
C2_Witness ==
    /\ pc = "done"
    /\ IsNone(text_tsv_content)
    /\ IsTsv(shape_tsv_content)
    /\ Len(shape_tsv_content[2]) > 1

----------------------------------------------------------------------------
\* the row names a connector of its slide
FromConnector(slides, row) ==
    LET s == row[1][2] + 1
        j == row[2][2] - 1
    IN  /\ s \in 1..Len(slides)
        /\ j \in 1..Len(slides[s])
        /\ IsConnector(slides[s][j])

\* C3: no row of Stream A or of Stream B, written or still being collected,
\* comes from a connector/line shape.
C3_NoConnectorRows ==
    LET slides == Slides(doc)
    IN  /\ \A row \in Range(DataRows(text_tsv_content)) : ~FromConnector(slides, row)
        /\ \A row \in Range(DataRows(shape_tsv_content)) : ~FromConnector(slides, row)
        /\ \A row \in Range(shape_details_list) : ~FromConnector(slides, row)
        /\ pc = "text_walk" =>
              \A row \in Range(Tail(output)) : ~FromConnector(slides, row)

\* both streams were written for a document that holds a connector with
\* text, and another shape wrote a row
C3_Witness ==
    /\ pc = "done"
    /\ \E sh \in AllShapes(Slides(doc)) : IsConnector(sh) /\ sh.has_text_frame
    /\ Len(DataRows(text_tsv_content)) > 0
    /\ Len(DataRows(shape_tsv_content)) > 0

----------------------------------------------------------------------------
\* the rows one text frame must give
FrameRowSet(prefix, paragraphs) ==
    {prefix \o <<PyInt(q[1] - 1), PyInt(q[2] - 1),
                 Txt(Trimmed(paragraphs[q[1]].runs[q[2]]))>> :
        q \in {q \in UNION {{<<p, r>> : r \in 1..Len(paragraphs[p].runs)} :
                               p \in 1..Len(paragraphs)} :
                 Trimmed(paragraphs[q[1]].runs[q[2]]) # <<>>}}

\* the rows one shape on slide s (0-based) must give
ShapeRowSet(s, shape) ==
    IF IsConnector(shape) THEN {}
    ELSE (IF shape.has_text_frame
          THEN FrameRowSet(<<PyInt(s), PyInt(shape.shape_id), Lit("False"),
                             Lit(""), Lit("")>>, shape.text_frame)
          ELSE {})
         \cup
         (IF shape.shape_type = MSO_TABLE
          THEN UNION {FrameRowSet(<<PyInt(s), PyInt(shape.shape_id), Lit("True"),
                                    PyInt(q[1] - 1), PyInt(q[2] - 1)>>,
                                  shape.table[q[1]][q[2]]) :
                        q \in UNION {{<<r, c>> : c \in 1..Len(shape.table[r])} :
                                        r \in 1..Len(shape.table)}}
          ELSE {})

ExpectedTextRows(slides) ==
    UNION {ShapeRowSet(q[1] - 1, slides[q[1]][q[2]]) : q \in Positions(slides)}

\* slide, shape, branch, cell row, cell column, paragraph, run
TextRowKey(row) ==
    IF row[3] = Lit("False")
    THEN <<row[1][2], row[2][2], 0, 0, 0, row[6][2], row[7][2]>>
    ELSE <<row[1][2], row[2][2], 1, row[4][2], row[5][2], row[6][2], row[7][2]>>

\* the non-blank runs of the text frames of the shapes that are no connector
FrameRuns(slides) ==
    {q \in UNION {UNION {{<<w[1], w[2], p, r>> :
                              r \in 1..Len(slides[w[1]][w[2]].text_frame[p].runs)} :
                           p \in 1..Len(slides[w[1]][w[2]].text_frame)} :
                    w \in {w \in Positions(slides) :
                             /\ ~IsConnector(slides[w[1]][w[2]])
                             /\ slides[w[1]][w[2]].has_text_frame}} :
        Trimmed(slides[q[1]][q[2]].text_frame[q[3]].runs[q[4]]) # <<>>}

\* C4: when the text-run pass returns rows, they are exactly the rows the
\* non-blank runs of the non-connector shapes must give (text-frame rows
\* with is_table_cell False and empty cell indexes, table rows with True
\* and the 0-based cell indexes, each with the 0-based paragraph and run
\* index and the trimmed text), once each, in traversal order; the rows
\* with is_table_cell False are as many as those text-frame runs.
C4_TextRunRows ==
    IsTsv(text_tsv_content) =>
        LET rows == DataRows(text_tsv_content)
            slides == Slides(doc)
        IN  /\ Range(rows) = ExpectedTextRows(slides)
            /\ Ascending([k \in 1..Len(rows) |-> TextRowKey(rows[k])])
            /\ Cardinality({k \in 1..Len(rows) : rows[k][3] = Lit("False")})
                 = Cardinality(FrameRuns(slides))

\* a text-frame row of a run that follows a blank run, and the row of
\* table cell (1,1), in one stream
C4_Witness ==
    /\ IsTsv(text_tsv_content)
    /\ \E row \in Range(DataRows(text_tsv_content)) :
          row[3] = Lit("False") /\ row[7] = PyInt(1)
    /\ \E row \in Range(DataRows(text_tsv_content)) :
          row[3] = Lit("True") /\ row[4] = PyInt(1) /\ row[5] = PyInt(1)

----------------------------------------------------------------------------
\* C5: when the shape-summary pass returns rows, there is exactly one per
\* non-connector shape, in slide order and then shape order; its
\* slide_index is the 0-based index of the shape's slide, below the slide
\* count, and its shape_id the shape's identifier.
C5_OneRowPerShape ==
    IsTsv(shape_tsv_content) =>
        LET rows == DataRows(shape_tsv_content)
            slides == Slides(doc)
            keys == [k \in 1..Len(rows) |-> <<rows[k][1][2], rows[k][2][2]>>]
        IN  /\ \A k \in 1..Len(rows) : keys[k][1] \in 0..(Len(slides) - 1)
            /\ Range(keys) =
                 {<<q[1] - 1, slides[q[1]][q[2]].shape_id>> :
                    q \in {q \in Positions(slides) :
                             ~IsConnector(slides[q[1]][q[2]])}}
            /\ Ascending(keys)

\* rows on two slides: one for a shape with no name, no fill and no text,
\* one for a shape with no position
C5_Witness ==
    /\ IsTsv(shape_tsv_content)
    /\ \E a, b \in Range(DataRows(shape_tsv_content)) :
          /\ a[1] = PyInt(0)
          /\ a[3] = Lit("Unnamed Shape")
          /\ a[5] = Lit("Fill Attribute Missing / Other Type")
          /\ a[10] = Txt(<<>>)
          /\ b[1] = PyInt(1)
          /\ b[6] = Lit("")

----------------------------------------------------------------------------
Classified == fn_pc \in {"classified", "concatenated", "rerun"}

\* C6: get_shape_fill_color_info never raises and never returns the empty
\* string, whatever the shape and whichever of its reads fails.
C6_NeverRaises ==
    Classified => ~IsRaise(color_info) /\ color_info # Lit("")

----------------------------------------------------------------------------
\* the inspection of the fill raises inside the try block
InspectionFails(fill) ==
    \/ fill.typeRead = "raises"
    \/ /\ fill.type = "SOLID"
       /\ \/ fill.colorRead = "raises"
          \/ fill.fore_color.rgbRead = "raises"
          \/ /\ fill.fore_color.rgbRead # "ok"
             /\ \/ fill.fore_color.themeRead = "raises"
                \/ /\ fill.fore_color.themeRead = "ok"
                   /\ fill.fore_color.brightRead = "raises"

HasRgb(fill) == fill.fore_color.rgbRead = "ok"
HasTheme(fill) == fill.fore_color.rgbRead # "ok" /\ fill.fore_color.themeRead = "ok"

FixedLabels ==
    {Lit("Gradient Fill"), Lit("Picture Fill"), Lit("Group Fill"),
     Lit("Background Fill"), Lit("Patterned Fill"), Lit("Textured Fill")}

FixedLabel(type) ==
    CASE type = "GRADIENT" -> Lit("Gradient Fill")
      [] type = "PICTURE" -> Lit("Picture Fill")
      [] type = "GROUP" -> Lit("Group Fill")
      [] type = "BACKGROUND" -> Lit("Background Fill")
      [] type = "PATTERNED" -> Lit("Patterned Fill")
      [] type = "TEXTURED" -> Lit("Textured Fill")

\* hundredths h are thousandths th to two decimals
TwoDecimals(h, th) == 10 * h - th \in -5..5

\* the rows of the table that the code and the claim agree on
TableRowsHold(fill, info) ==
    /\ fill.type = "None" => info = Lit("No Fill")
    /\ fill.type = "SOLID" /\ HasRgb(fill) =>
          info = <<"RGB", fill.fore_color.rgb[1], fill.fore_color.rgb[2],
                   fill.fore_color.rgb[3]>>
    /\ fill.type = "SOLID" /\ HasTheme(fill) =>
          /\ info[1] = "ThemeColor"
          /\ info[2] = fill.fore_color.theme_color
          /\ TwoDecimals(info[3], fill.fore_color.brightness)
    /\ fill.type \in {"GRADIENT", "PICTURE", "GROUP", "BACKGROUND", "PATTERNED",
                      "TEXTURED"} => info = FixedLabel(fill.type)

Inspected ==
    Classified /\ fn_shape.fillRead = "ok" /\ ~InspectionFails(fn_shape.fill)

\* C7 as claimed: a shape with a fill attribute whose inspection does not
\* fail gets the string of the table, so the result is "No Fill", an RGB
\* string, a ThemeColor string or one of the six fixed labels, for every
\* solid fill too.
C7_SpecTable ==
    Inspected =>
        /\ TableRowsHold(fn_shape.fill, color_info)
        /\ \/ color_info[1] \in {"RGB", "ThemeColor"}
           \/ color_info \in FixedLabels \cup {Lit("No Fill")}

\* C7 as amended: the same table, and a solid fill whose colour has neither
\* an RGB value nor a theme colour gets "Solid Fill"; the result is one of
\* the forms of the table or "Solid Fill".
C7_AmendedTable ==
    Inspected =>
        /\ TableRowsHold(fn_shape.fill, color_info)
        /\ fn_shape.fill.type = "SOLID" /\ ~HasRgb(fn_shape.fill)
             /\ ~HasTheme(fn_shape.fill) => color_info = Lit("Solid Fill")
        /\ \/ color_info[1] \in {"RGB", "ThemeColor"}
           \/ color_info \in FixedLabels \cup {Lit("No Fill"), Lit("Solid Fill")}

\* theme colour 3 with brightness 0.456 was classified
C7_Witness ==
    /\ Inspected
    /\ fn_shape.fill.type = "SOLID"
    /\ fn_shape.fill.fore_color.brightness = 456
    /\ color_info = <<"ThemeColor", 3, 46>>

----------------------------------------------------------------------------
\* the sentinel the claim gives a shape kind
SentinelOfKind(kind) ==
    IF kind = MSO_TABLE THEN Lit("Table Container (Fill N/A)")
    ELSE IF kind = MSO_CHART THEN Lit("Chart Container (Fill N/A)")
    ELSE IF kind = MSO_EMBEDDED_OLE_OBJECT THEN Lit("Graphic Frame (Fill N/A)")
    ELSE Lit("Fill Attribute Missing / Other Type")

\* C8: a shape without a fill attribute gets the sentinel of its kind: the
\* table, chart and graphic-frame sentinels exactly for those kinds, the
\* generic one for every other kind (group, picture, unknown codes).
C8_SentinelByKind ==
    Classified /\ fn_shape.fillRead = "absent" /\ fn_shape.kindRead = "ok" =>
        color_info = SentinelOfKind(fn_shape.shape_type)

----------------------------------------------------------------------------
\* the texts the concatenator looks at: the paragraphs of the text frame,
\* then the cells of the table row by row
CandidateTexts(shape) ==
    (IF shape.has_text_frame
     THEN [p \in 1..Len(shape.text_frame) |-> ParagraphText(shape.text_frame[p])]
     ELSE <<>>)
    \o (IF shape.shape_type = MSO_TABLE /\ shape.table # <<>>
        THEN LET cols == Len(shape.table[1])
             IN  [k \in 1..(Len(shape.table) * cols) |->
                    CellText(shape.table[((k - 1) \div cols) + 1][((k - 1) % cols) + 1])]
        ELSE <<>>)

ExpectedParts(shape) ==
    SelectSeq([k \in 1..Len(CandidateTexts(shape)) |->
                  Trimmed(CandidateTexts(shape)[k])],
              LAMBDA part : part # <<>>)

RECURSIVE OffsetOf(_, _)
OffsetOf(parts, i) ==
    IF i = 1 THEN 0
    ELSE OffsetOf(parts, i - 1) + Len(parts[i - 1]) + Len(Delimiter)

\* text is the parts with the delimiter between two consecutive parts and
\* nowhere else
JoinedBy(text, parts) ==
    IF parts = <<>> THEN text = <<>>
    ELSE /\ Len(text) = OffsetOf(parts, Len(parts)) + Len(parts[Len(parts)])
         /\ \A i \in 1..Len(parts) :
               /\ SubSeq(text, OffsetOf(parts, i) + 1,
                         OffsetOf(parts, i) + Len(parts[i])) = parts[i]
               /\ i > 1 => SubSeq(text, OffsetOf(parts, i) - Len(Delimiter) + 1,
                                  OffsetOf(parts, i)) = Delimiter

StartsWith(text, d) == Len(text) >= Len(d) /\ SubSeq(text, 1, Len(d)) = d
EndsWith(text, d) ==
    Len(text) >= Len(d) /\ SubSeq(text, Len(text) - Len(d) + 1, Len(text)) = d

----------------------------------------------------------------------------
IsNumber(cell) == cell[1] = "int"

\* C10: the four geometry columns of a Stream B row are all numbers or all
\* the literal "N/A".
C10_GeometryAsGroup ==
    \A row \in Range(shape_details_list) \cup Range(DataRows(shape_tsv_content)) :
        \/ \A k \in 6..9 : IsNumber(row[k])
        \/ \A k \in 6..9 : row[k] = Lit("N/A")

====
